---- MODULE Spec2Model ----
(***************************************************************************)
(* Model of the adaptive orchestration pipeline of fix-code-makuro:        *)
(*   src/src/smartAgent.ts        executeSmartAgent, getProjectCache,      *)
(*                                cleanCodeResponse, cache management      *)
(*   src/src/autonomousActions.ts AutonomousActionExecutor, ActionParser,  *)
(*                                getActionConfig                          *)
(*   src/src/codeValidator.ts     calculateScore, verdict shape            *)
(*                                                                         *)
(* Texts (model output, code) are sequences of LINES; the text is the      *)
(* lines joined by "\n".  The empty text "" is the one-line text           *)
(* <<"blank">>.  Line kinds:                                               *)
(*   "blank"      the empty line                                           *)
(*   "fence"      ```            "fenceLang"  ```ts                        *)
(*   "expl"       Here's the fixed code:                                   *)
(*   "code"       a line of program text                                   *)
(*   "mInstallA"  <action:install_package packages="left-pad" />          *)
(*   "mInstallB"  <action:install_package packages="jest" dev="true" />   *)
(*   "mCreateFile"   <action:create_file path="src/a.ts" />               *)
(*   "mCreateFolder" <action:create_folder path="src/lib" />              *)
(*   "mRunScript"    <action:run_script script="build" />                 *)
(***************************************************************************)
EXTENDS Integers, Sequences, FiniteSets, TLC

VARIABLES
  config,        \* SmartAgentConfig of the run (input, fixed during the run)
  settings,      \* the user's fixCode.* settings ("unset" = not changed)
  pc,            \* position of executeSmartAgent
  run,           \* locals of executeSmartAgent
  exec,          \* state of the AutonomousActionExecutor.execute call in flight
  hist,          \* observation of the run (calls made so far)
  result,        \* SmartAgentResult returned to the caller, or NULL
  projectCaches, \* the module-level Map workspacePath -> ProjectCache
  now,           \* Date.now(), in milliseconds
  fs,            \* what the file system holds for each project root
  getter,        \* per caller: position and locals of a getProjectCache call
  files,         \* content of the workspace files that requests name
  shell          \* the fixCode.open handler: its position and the document

vars == <<config, settings, pc, run, exec, hist, result,
          projectCaches, now, fs, getter, files, shell>>

NULL == "null"
Undefined == "undefined"

(***************************************************************************)
(* Bounds                                                                  *)
(***************************************************************************)
MaxErrors == 2      \* errors in one verdict
MaxWarnings == 1    \* warnings in one verdict
MaxTicks == 6       \* minutes the clock may advance

(***************************************************************************)
(* Sequence helpers                                                        *)
(***************************************************************************)
RECURSIVE SelectLines(_, _)
SelectLines(s, kinds) ==
  IF s = <<>> THEN <<>>
  ELSE (IF Head(s) \in kinds THEN <<Head(s)>> ELSE <<>>) \o SelectLines(Tail(s), kinds)

RECURSIVE StripLeading(_, _)
StripLeading(s, kinds) ==
  IF s = <<>> THEN <<>>
  ELSE IF Head(s) \in kinds THEN StripLeading(Tail(s), kinds) ELSE s

RECURSIVE StripTrailing(_, _)
StripTrailing(s, kinds) ==
  IF s = <<>> THEN <<>>
  ELSE IF s[Len(s)] \in kinds THEN StripTrailing(SubSeq(s, 1, Len(s) - 1), kinds) ELSE s

Range(s) == {s[i] : i \in 1..Len(s)}

IsPrefix(s, t) == Len(s) <= Len(t) /\ SubSeq(t, 1, Len(s)) = s

\* the text with no characters
EmptyText == <<"blank">>

AsText(s) == IF s = <<>> THEN EmptyText ELSE s

(***************************************************************************)
(* Settings and permission policy (autonomousActions.ts)                   *)
(***************************************************************************)
PermissionKeys ==
  {"allowPackageInstall", "allowFileCreation", "allowFolderCreation",
   "allowFileModification", "allowScriptExecution", "allowGitOperations",
   "allowFormatting", "requireConfirmation"}

\* no user setting changed; fixCode.cacheDuration is a number of minutes,
\* read as config.get("cacheDuration", 5)
DefaultSettings ==
  [k \in PermissionKeys \cup {"cacheDuration"} |->
     IF k = "cacheDuration" THEN 5 ELSE "unset"]

\* the cache duration the user configured, in milliseconds
ConfiguredCacheDuration(s) == s["cacheDuration"] * 60 * 1000

\* vscode's config.get(key, default)
ConfigGet(s, key, default) ==
  IF s[key] = "unset" THEN default ELSE s[key] = "true"

\* mutant: script execution enabled by default
GetActionConfig_ScriptsOn(s) ==
  [allowPackageInstall   |-> ConfigGet(s, "allowPackageInstall", TRUE),
   allowFileCreation     |-> ConfigGet(s, "allowFileCreation", TRUE),
   allowFolderCreation   |-> ConfigGet(s, "allowFolderCreation", TRUE),
   allowFileModification |-> ConfigGet(s, "allowFileModification", TRUE),
   allowScriptExecution  |-> ConfigGet(s, "allowScriptExecution", TRUE),
   allowGitOperations    |-> ConfigGet(s, "allowGitOperations", FALSE),
   allowFormatting       |-> ConfigGet(s, "allowFormatting", TRUE),
   requireConfirmation   |-> ConfigGet(s, "requireConfirmation", FALSE)]

GetActionConfig(s) ==
  [allowPackageInstall   |-> ConfigGet(s, "allowPackageInstall", TRUE),
   allowFileCreation     |-> ConfigGet(s, "allowFileCreation", TRUE),
   allowFolderCreation   |-> ConfigGet(s, "allowFolderCreation", TRUE),
   allowFileModification |-> ConfigGet(s, "allowFileModification", TRUE),
   allowScriptExecution  |-> ConfigGet(s, "allowScriptExecution", FALSE),
   allowGitOperations    |-> ConfigGet(s, "allowGitOperations", FALSE),
   allowFormatting       |-> ConfigGet(s, "allowFormatting", TRUE),
   requireConfirmation   |-> ConfigGet(s, "requireConfirmation", FALSE)]

ActionTypes ==
  {"install_package", "create_file", "create_folder", "modify_file",
   "run_script", "git_operation", "format_code", "update_imports"}

IsActionAllowed(cfg, type) ==
  CASE type = "install_package" -> cfg.allowPackageInstall
    [] type = "create_file"     -> cfg.allowFileCreation
    [] type = "create_folder"   -> cfg.allowFolderCreation
    [] type = "modify_file"     -> cfg.allowFileModification
    [] type = "run_script"      -> cfg.allowScriptExecution
    [] type = "git_operation"   -> cfg.allowGitOperations
    [] type = "format_code"     -> cfg.allowFormatting
    [] type = "update_imports"  -> cfg.allowFileModification
    [] OTHER                    -> FALSE

(***************************************************************************)
(* ActionParser.parseActions: one pass per pattern, in the order           *)
(* install_package, create_file, create_folder, run_script; within a pass  *)
(* the matches come in text order.                                         *)
(***************************************************************************)
InstallMarkers == {"mInstallA", "mInstallB"}
MarkerLines == InstallMarkers \cup {"mCreateFile", "mCreateFolder", "mRunScript"}

MarkerType(line) ==
  CASE line \in InstallMarkers -> "install_package"
    [] line = "mCreateFile"    -> "create_file"
    [] line = "mCreateFolder"  -> "create_folder"
    [] line = "mRunScript"     -> "run_script"

RECURSIVE ToActions(_)
ToActions(ms) ==
  IF ms = <<>> THEN <<>>
  ELSE <<[type |-> MarkerType(Head(ms)), marker |-> Head(ms)]>> \o ToActions(Tail(ms))

ParseActions(text) ==
  ToActions(SelectLines(text, InstallMarkers)
            \o SelectLines(text, {"mCreateFile"})
            \o SelectLines(text, {"mCreateFolder"})
            \o SelectLines(text, {"mRunScript"}))

(***************************************************************************)
(* cleanCodeResponse (smartAgent.ts)                                       *)
(***************************************************************************)
Trim(text) == AsText(StripTrailing(StripLeading(text, {"blank"}), {"blank"}))

FenceLines == {"fence", "fenceLang"}

\* /^```[\w]*\n([\s\S]*?)\n```$/ with a non-empty group 1
StripCodeBlock(t) ==
  IF /\ Len(t) >= 3
     /\ t[1] \in FenceLines
     /\ t[Len(t)] = "fence"
     /\ ~(Len(t) = 3 /\ t[2] = "blank")
  THEN SubSeq(t, 2, Len(t) - 1)
  ELSE t

\* the first "expl" line and the white space after it (first pattern, flags im,
\* not global); the other two patterns match no line kind of the model
FirstIndex(t, kinds) ==
  IF \E i \in 1..Len(t) : t[i] \in kinds
  THEN CHOOSE i \in 1..Len(t) : t[i] \in kinds /\ \A j \in 1..(i - 1) : t[j] \notin kinds
  ELSE 0

StripExplanation(t) ==
  LET i == FirstIndex(t, {"expl"}) IN
    IF i = 0 THEN t
    ELSE LET rest == StripLeading(SubSeq(t, i + 1, Len(t)), {"blank"}) IN
           IF rest = <<>>
           THEN SubSeq(t, 1, i - 1) \o <<"blank">>
           ELSE SubSeq(t, 1, i - 1) \o rest

\* /^```[\w]*\s*\n?/
StripOpeningFence(t) ==
  IF t[1] \in FenceLines
  THEN AsText(StripLeading(Tail(t), {"blank"}))
  ELSE t

\* /\n?```\s*$/
StripClosingFence(t) ==
  LET body == StripTrailing(t, {"blank"}) IN
    IF body # <<>> /\ body[Len(body)] = "fence"
    THEN AsText(SubSeq(body, 1, Len(body) - 1))
    ELSE t

CleanCodeResponse(response) ==
  Trim(StripClosingFence(StripOpeningFence(StripExplanation(StripCodeBlock(Trim(response))))))

(***************************************************************************)
(* cleanMarkdownCodeFences (smartAgent.ts), applied by applyCodeFix         *)
(***************************************************************************)
\* the matches of /```[\w\-+#]*\s*\n([\s\S]*?)\n```/g from line i on: an opening
\* fence line, the lines up to the next fence line, and on after that line
RECURSIVE CodeBlocks(_, _)
CodeBlocks(t, i) ==
  IF i + 2 > Len(t) THEN <<>>
  ELSE IF t[i] \notin FenceLines THEN CodeBlocks(t, i + 1)
  ELSE LET j == FirstIndex(SubSeq(t, i + 2, Len(t)), FenceLines) IN
         IF j = 0 THEN <<>>
         ELSE <<SubSeq(t, i + 1, i + j)>> \o CodeBlocks(t, i + j + 2)

\* the first of the longest blocks that are not empty
RECURSIVE LargestBlock(_)
LargestBlock(blocks) ==
  IF blocks = <<>> THEN <<>>
  ELSE LET rest == LargestBlock(Tail(blocks))
           head == IF Head(blocks) = <<"blank">> THEN <<>> ELSE Head(blocks)
       IN IF Len(rest) > Len(head) THEN rest ELSE head

\* pattern 1 is the whole text as one block; pattern 2 needs code on the line
\* of a fence, which no line kind of the model is; pattern 3 takes the largest
\* inner block and leaves pattern 4 nothing to match; patterns 5 and 6 strip
\* a leading fence, a trailing fence and the first explanation phrase
CleanMarkdownCodeFences(text) ==
  LET whole == StripCodeBlock(Trim(text))
      largest == LargestBlock(CodeBlocks(text, 1))
  IN IF whole # Trim(text) THEN whole
     ELSE IF largest # <<>> THEN largest
     ELSE Trim(StripExplanation(StripClosingFence(StripOpeningFence(Trim(text)))))

(***************************************************************************)
(* Verdicts (codeValidator.ts)                                             *)
(***************************************************************************)
Max(a, b) == IF a >= b THEN a ELSE b
Min(a, b) == IF a <= b THEN a ELSE b

\* mutant: the score is not clamped
CalculateScore_Unclamped(nErrors, nWarnings) ==
  100 - nErrors * 10 - nWarnings * 2

CalculateScore(nErrors, nWarnings) ==
  Max(0, Min(100, 100 - nErrors * 10 - nWarnings * 2))

\* the errors of a verdict, each named by its position in the list
ErrorList(n) == [i \in 1..n |-> i]

\* every ValidationResult the three validators build has this shape
MakeVerdict(errors, nWarnings) ==
  [isValid  |-> Len(errors) = 0,
   errors   |-> errors,
   warnings |-> nWarnings,
   score    |-> CalculateScore(Len(errors), nWarnings)]

Verdicts ==
  {MakeVerdict(ErrorList(e), w) : e \in 0..MaxErrors, w \in 0..MaxWarnings}

NoVerdict == [isValid |-> FALSE, errors |-> <<>>, warnings |-> 0, score |-> -1]

\* error.suggestion is optional: the errors with an even name carry one
HasSuggestion(error) == error % 2 = 0

\* errors.forEach((error, index) => ...): a numbered line, then the suggestion
RECURSIVE ErrorLines(_, _)
ErrorLines(errors, index) ==
  IF index > Len(errors) THEN <<>>
  ELSE <<<<"error", index, errors[index]>>>>
       \o (IF HasSuggestion(errors[index])
           THEN <<<<"suggestion", errors[index]>>>> ELSE <<>>)
       \o ErrorLines(errors, index + 1)

\* generateErrorContext: "" for an acceptable verdict
GenerateErrorContext(verdict) ==
  IF verdict.isValid THEN <<>>
  ELSE <<<<"header">>>> \o ErrorLines(verdict.errors, 1) \o <<<<"footer">>>>

(***************************************************************************)
(* analyzeTaskComplexity (smartAgent.ts).  A task is the instruction and   *)
(* the selected code, reduced to what the function reads.                  *)
(***************************************************************************)
\* mutant: the complex test comes first
AnalyzeTaskComplexity_ComplexFirst(task) ==
  IF task.complexKw \/ task.codeLines > 100 \/ task.promptLength > 100
  THEN [complexity |-> "complex", mode |-> "deep",
        needsContext |-> TRUE, needsAnalysis |-> TRUE]
  ELSE IF task.simpleKw \/ task.codeLines < 10
  THEN [complexity |-> "simple", mode |-> "instant",
        needsContext |-> FALSE, needsAnalysis |-> FALSE]
  ELSE [complexity |-> "medium", mode |-> "smart",
        needsContext |-> TRUE, needsAnalysis |-> FALSE]

AnalyzeTaskComplexity(task) ==
  IF task.simpleKw \/ task.codeLines < 10
  THEN [complexity |-> "simple", mode |-> "instant",
        needsContext |-> FALSE, needsAnalysis |-> FALSE]
  ELSE IF task.complexKw \/ task.codeLines > 100 \/ task.promptLength > 100
  THEN [complexity |-> "complex", mode |-> "deep",
        needsContext |-> TRUE, needsAnalysis |-> TRUE]
  ELSE [complexity |-> "medium", mode |-> "smart",
        needsContext |-> TRUE, needsAnalysis |-> FALSE]

\* const maxRetries = config.maxRetries || 2
EffectiveMaxRetries(m) == IF m = 0 THEN 2 ELSE m

maxRetries == EffectiveMaxRetries(config.maxRetries)

\* const enableValidation = config.enableValidation !== false
enableValidation == config.enableValidation

(***************************************************************************)
(* AutonomousActionExecutor.execute, one call at a time.                   *)
(*   exec.step: "Idle" (no call in flight), "Confirming" (awaiting the     *)
(*   user's answer), "Executing" (awaiting the action implementation),     *)
(*   "Returned" (the promise has settled with exec.res)                    *)
(***************************************************************************)
\* workspace files: the path a create_file request names holds no file, or
\* a file with some content
Paths == {"src/App.tsx"}
Absent == "absent"
EmptyContent == ""
NoFiles == [path \in Paths |-> Absent]

\* params.filePath of a create_file request
FilePathOf(req) == "src/App.tsx"

\* createFile: mkdir, then writeFile(fullPath, content) with the parser's
\* content "", then the file is opened; a failure after the write leaves the
\* file written
CreateFile(fileMap, req, written) ==
  IF written THEN [fileMap EXCEPT ![FilePathOf(req)] = EmptyContent] ELSE fileMap

\* the handler before executeSmartAgent has returned
OriginalText == <<"original">>
IdleShell == [step |-> "Waiting", document |-> OriginalText, applyAnyway |-> FALSE]

NoRequest == [type |-> "none", marker |-> "none"]

IdleExec == [step |-> "Idle", req |-> NoRequest, res |-> "none",
             prompted |-> FALSE, executing |-> FALSE, executedActions |-> <<>>]

\* success of an ActionResult
Success(res) == res = "succeeded"

\* mutant: the confirmation comes before the permission check
ExecuteCall_PromptsFirst(e, req) ==
  LET cfg == GetActionConfig(settings) IN
    IF cfg.requireConfirmation
    THEN [e EXCEPT !.step = "Confirming", !.req = req, !.res = "none",
                   !.prompted = TRUE, !.executing = FALSE]
    ELSE IF ~IsActionAllowed(cfg, req.type)
    THEN [e EXCEPT !.step = "Returned", !.req = req, !.res = "denied",
                   !.prompted = FALSE, !.executing = FALSE]
    ELSE [e EXCEPT !.step = "Executing", !.req = req, !.res = "none",
                   !.prompted = FALSE, !.executing = TRUE]

\* entry of execute up to its first suspension point
ExecuteCall(e, req) ==
  LET cfg == GetActionConfig(settings) IN
    IF ~IsActionAllowed(cfg, req.type)
    THEN [e EXCEPT !.step = "Returned", !.req = req, !.res = "denied",
                   !.prompted = FALSE, !.executing = FALSE]
    ELSE IF cfg.requireConfirmation
    THEN [e EXCEPT !.step = "Confirming", !.req = req, !.res = "none",
                   !.prompted = TRUE, !.executing = FALSE]
    ELSE [e EXCEPT !.step = "Executing", !.req = req, !.res = "none",
                   !.prompted = FALSE, !.executing = TRUE]

\* the user answers the confirmation prompt (or dismisses it)
ConfirmAnswer ==
  /\ exec.step = "Confirming"
  /\ \E choice \in {"Yes", "No", Undefined} :
       exec' = IF choice = "Yes"
               THEN [exec EXCEPT !.step = "Executing", !.executing = TRUE]
               ELSE [exec EXCEPT !.step = "Returned", !.res = "cancelled"]
  /\ UNCHANGED <<files, shell, config, settings, pc, run, hist, result, projectCaches, now, fs, getter>>

\* the action implementation settles: it succeeded, or it failed (returned a
\* failure or threw, which execute catches)
RunAction ==
  /\ exec.step = "Executing"
  /\ \E ok \in BOOLEAN, written \in BOOLEAN :
       /\ ok => written
       /\ exec' = IF ok
                  THEN [exec EXCEPT !.step = "Returned", !.res = "succeeded",
                                    !.executedActions = Append(@, exec.req)]
                  ELSE [exec EXCEPT !.step = "Returned", !.res = "failed"]
       /\ files' = IF exec.req.type = "create_file"
                   THEN CreateFile(files, exec.req, written)
                   ELSE files
  /\ UNCHANGED <<shell, config, settings, pc, run, hist, result, projectCaches, now, fs, getter>>

(***************************************************************************)
(* Context cache (smartAgent.ts): projectCaches is a Map, modelled as a    *)
(* function whose DOMAIN is the set of keys present.                       *)
(***************************************************************************)
MINUTE == 60 * 1000
CACHE_DURATION == 5 * 60 * 1000

Roots == {"p", "q"}

\* what a project root holds: the directory listing and the manifest
FsStates ==
  {[dir |-> "d1", manifest |-> "m1"],
   [dir |-> "d1", manifest |-> "m2"],
   [dir |-> "unreadable", manifest |-> "missing"]}

BuildProjectStructure(f) ==
  IF f.dir = "unreadable" THEN "Project structure unavailable" ELSE f.dir

DetectCommonPatterns(f) ==
  IF f.manifest = "missing" THEN "No patterns detected" ELSE f.manifest

GetDependencies(f) ==
  IF f.manifest = "missing" THEN "No dependencies found" ELSE f.manifest

NoSnapshot ==
  [projectStructure |-> "none", commonPatterns |-> "none",
   dependencies |-> "none", timestamp |-> -1]

MapSet(m, k, v) == [x \in (DOMAIN m) \cup {k} |-> IF x = k THEN v ELSE m[x]]
MapDelete(m, k) == [x \in (DOMAIN m) \ {k} |-> m[x]]
EmptyMap == [x \in {} |-> NoSnapshot]

IdleGetter ==
  [pc |-> "idle", root |-> "none", at |-> 0, hit |-> FALSE, reads |-> 0,
   structure |-> "none", patterns |-> "none", ret |-> NoSnapshot,
   prev |-> NoSnapshot, afterClear |-> FALSE,
   preClear |-> FALSE, hitPreClear |-> FALSE]

\* history: the builds in flight for the roots that already hold data read
\* from the project are marked when the roots are cleared
MarkInFlight(g, roots) ==
  [c \in DOMAIN g |->
     IF g[c].root \in roots /\ g[c].pc \in {"patterns", "dependencies"}
     THEN [g[c] EXCEPT !.preClear = TRUE]
     ELSE g[c]]

\* mutant: the duration taken in seconds
IsFresh_Seconds(cached, t) == t - cached.timestamp < 5 * 60

\* cached && Date.now() - cached.timestamp < CACHE_DURATION
IsFresh(cached, t) == t - cached.timestamp < CACHE_DURATION

\* getProjectCache from its entry to its first suspension point
GetProjectCacheCall(root) ==
  IF root \in DOMAIN projectCaches /\ IsFresh(projectCaches[root], now)
  THEN [IdleGetter EXCEPT !.pc = "returned", !.root = root, !.at = now,
                          !.hit = TRUE, !.ret = projectCaches[root]]
  ELSE [IdleGetter EXCEPT !.pc = "structure", !.root = root, !.at = now]

\* mutant: a directory that cannot be read makes the run fail
ReadStructure_Propagates(c) ==
  /\ getter[c].pc = "structure"
  /\ IF fs[getter[c].root].dir = "unreadable" /\ pc = "BuildingContext"
     THEN /\ result' = [kind |-> "FailedFatal", success |-> FALSE,
                        error |-> "Failed to process", code |-> <<>>,
                        retries |-> run.retryCount, actionsExecuted |-> <<>>]
          /\ pc' = "Done"
          /\ getter' = [getter EXCEPT ![c].pc = "idle"]
     ELSE /\ getter' = [getter EXCEPT ![c].pc = "patterns",
                            ![c].structure = BuildProjectStructure(fs[getter[c].root]),
                            ![c].reads = @ + 1]
          /\ UNCHANGED <<pc, result>>
  /\ UNCHANGED <<files, shell, config, settings, run, exec, hist, projectCaches, now, fs>>

\* await buildProjectStructure(workspacePath) settles
ReadStructure(c) ==
  /\ getter[c].pc = "structure"
  /\ getter' = [getter EXCEPT ![c].pc = "patterns",
                              ![c].structure = BuildProjectStructure(fs[getter[c].root]),
                              ![c].reads = @ + 1]
  /\ UNCHANGED <<files, shell, config, settings, pc, run, exec, hist, result, projectCaches, now, fs>>

\* await detectCommonPatterns(workspacePath) settles
ReadPatterns(c) ==
  /\ getter[c].pc = "patterns"
  /\ getter' = [getter EXCEPT ![c].pc = "dependencies",
                              ![c].patterns = DetectCommonPatterns(fs[getter[c].root]),
                              ![c].reads = @ + 1]
  /\ UNCHANGED <<files, shell, config, settings, pc, run, exec, hist, result, projectCaches, now, fs>>

\* mutant: the build completes the entry that is in the map instead of
\* replacing it
ReadDependencies_InPlace(c) ==
  /\ getter[c].pc = "dependencies"
  /\ LET root == getter[c].root
         cache == [projectStructure |-> getter[c].structure,
                   commonPatterns   |-> getter[c].patterns,
                   dependencies     |-> GetDependencies(fs[root]),
                   timestamp        |-> now]
         stored == IF root \in DOMAIN projectCaches
                   THEN [projectCaches[root] EXCEPT
                           !.dependencies = cache.dependencies,
                           !.timestamp = now]
                   ELSE cache
     IN /\ projectCaches' = MapSet(projectCaches, root, stored)
        /\ getter' = [getter EXCEPT ![c].pc = "returned", ![c].ret = cache,
                                    ![c].reads = @ + 1]
        /\ hist' = [hist EXCEPT !.lastRet[root] = cache,
                                !.preClearEntry = IF getter[c].preClear
                                                  THEN @ \cup {root} ELSE @ \ {root}]
  /\ UNCHANGED <<files, shell, config, settings, pc, run, exec, result, now, fs>>

\* await getDependencies(workspacePath) settles; the entry is stamped,
\* stored and returned
ReadDependencies(c) ==
  /\ getter[c].pc = "dependencies"
  /\ LET cache == [projectStructure |-> getter[c].structure,
                   commonPatterns   |-> getter[c].patterns,
                   dependencies     |-> GetDependencies(fs[getter[c].root]),
                   timestamp        |-> now]
     IN /\ projectCaches' = MapSet(projectCaches, getter[c].root, cache)
        /\ getter' = [getter EXCEPT ![c].pc = "returned", ![c].ret = cache,
                                    ![c].reads = @ + 1]
        /\ hist' = [hist EXCEPT !.lastRet[getter[c].root] = cache,
                                !.preClearEntry = IF getter[c].preClear
                                                  THEN @ \cup {getter[c].root}
                                                  ELSE @ \ {getter[c].root}]
  /\ UNCHANGED <<files, shell, config, settings, pc, run, exec, result, now, fs>>

ClearProjectCache(root) ==
  /\ projectCaches' = MapDelete(projectCaches, root)
  /\ hist' = [hist EXCEPT !.lastRet[root] = NoSnapshot,
                          !.cleared = @ \cup ({root} \cap DOMAIN projectCaches),
                          !.preClearEntry = @ \ {root}]
  /\ getter' = MarkInFlight(getter, {root})
  /\ UNCHANGED <<files, shell, config, settings, pc, run, exec, result, now, fs>>

ClearAllCaches ==
  /\ projectCaches' = EmptyMap
  /\ hist' = [hist EXCEPT !.lastRet = [r \in Roots |-> NoSnapshot],
                          !.cleared = @ \cup DOMAIN projectCaches,
                          !.preClearEntry = {}]
  /\ getter' = MarkInFlight(getter, Roots)
  /\ UNCHANGED <<files, shell, config, settings, pc, run, exec, result, now, fs>>

\* a minute passes
Tick ==
  /\ now < MaxTicks * MINUTE
  /\ now' = now + MINUTE
  /\ UNCHANGED <<files, shell, config, settings, pc, run, exec, hist, result, projectCaches, fs, getter>>

\* the time-to-live passes at once
Expire ==
  /\ now + CACHE_DURATION <= MaxTicks * MINUTE
  /\ now' = now + CACHE_DURATION
  /\ UNCHANGED <<files, shell, config, settings, pc, run, exec, hist, result, projectCaches, fs, getter>>

\* the project changes on disk
FsChange(root, f) ==
  /\ f # fs[root]
  /\ fs' = [fs EXCEPT ![root] = f]
  /\ UNCHANGED <<files, shell, config, settings, pc, run, exec, hist, result, projectCaches, now, getter>>

(***************************************************************************)
(* executeSmartAgent (smartAgent.ts).  Positions of the run:               *)
(*   "Classifying", "BuildingContext", "AssemblingPrompt",                 *)
(*   "InvokingModel", "ExecutingSideEffects", "Validating", "Done"         *)
(***************************************************************************)
NoAnalysis == [complexity |-> "none", mode |-> "none",
               needsContext |-> FALSE, needsAnalysis |-> FALSE]

InitRun ==
  [retryCount |-> 0, lastValidationResult |-> NoVerdict, analysis |-> NoAnalysis,
   cache |-> NoSnapshot, errorContext |-> <<>>, code |-> <<>>, cleanedCode |-> <<>>,
   suggestedActions |-> <<>>, actIdx |-> 0, executedActions |-> <<>>,
   actionExecutor |-> FALSE]

InitHist ==
  [aiCalls |-> 0, attempt |-> 0, attemptLog |-> <<>>, outcomes |-> <<>>,
   badVerdicts |-> 0, modelFailures |-> 0,
   lastRet |-> [r \in Roots |-> NoSnapshot], cleared |-> {},
   filesAtStart |-> NoFiles, prevLog |-> <<>>, systemPrompts |-> {},
   cachesAtStart |-> EmptyMap, discarded |-> {}, preClearEntry |-> {}]

NoResult == [kind |-> "none"]

\* buildChangesMade: the parser's requests carry params.filePath and
\* params.folderPath, never params.path
PackagesOf(marker) ==
  CASE marker = "mInstallA" -> <<"left-pad">>
    [] marker = "mInstallB" -> <<"jest">>
    [] OTHER -> <<>>

RECURSIVE BuildChangesMade(_)
BuildChangesMade(executedActions) ==
  IF executedActions = <<>>
  THEN [packagesInstalled |-> <<>>, filesCreated |-> <<>>,
        foldersCreated |-> <<>>, otherActions |-> <<>>]
  ELSE LET a == executedActions[Len(executedActions)]
           c == BuildChangesMade(SubSeq(executedActions, 1, Len(executedActions) - 1))
       IN CASE a.type = "install_package" ->
                 [c EXCEPT !.packagesInstalled = @ \o PackagesOf(a.marker)]
            [] a.type = "create_file" ->
                 [c EXCEPT !.filesCreated = Append(@, "unknown")]
            [] a.type = "create_folder" ->
                 [c EXCEPT !.foldersCreated = Append(@, "unknown")]
            [] OTHER ->
                 [c EXCEPT !.otherActions = Append(@, a.marker)]

\* validation passed (validated true), or validation disabled (retries: 0)
SuccessResult(r, verdict, validated) ==
  [kind |-> "Succeeded", success |-> TRUE, error |-> "none", code |-> r.cleanedCode,
   mode |-> r.analysis.mode, cachedUsed |-> r.cache # NoSnapshot,
   validated |-> validated,
   validationScore |-> IF validated THEN verdict.score ELSE -1,
   retries |-> IF validated THEN r.retryCount ELSE 0,
   validationErrors |-> <<>>,
   actionsExecuted |-> r.executedActions,
   changesMade |-> BuildChangesMade(r.executedActions)]

\* mutant: the failed attempt is counted as a retry
ExhaustedResult_CountsAttempt(r, verdict) ==
  [kind |-> "FailedExhausted", success |-> FALSE,
   error |-> "Code validation failed", code |-> r.cleanedCode,
   mode |-> r.analysis.mode, cachedUsed |-> r.cache # NoSnapshot,
   validated |-> FALSE, validationScore |-> verdict.score,
   retries |-> r.retryCount + 1,
   validationErrors |-> verdict.errors,
   actionsExecuted |-> r.executedActions,
   changesMade |-> BuildChangesMade(r.executedActions)]

\* validation failed with no retry left
ExhaustedResult(r, verdict) ==
  [kind |-> "FailedExhausted", success |-> FALSE,
   error |-> "Code validation failed", code |-> r.cleanedCode,
   mode |-> r.analysis.mode, cachedUsed |-> r.cache # NoSnapshot,
   validated |-> FALSE, validationScore |-> verdict.score,
   retries |-> r.retryCount,
   validationErrors |-> verdict.errors,
   actionsExecuted |-> r.executedActions,
   changesMade |-> BuildChangesMade(r.executedActions)]

\* the outer catch: { success: false, error, retries, executionTime }
FatalResult(r) ==
  [kind |-> "FailedFatal", success |-> FALSE,
   error |-> "Failed to process", code |-> <<>>,
   mode |-> "none", cachedUsed |-> FALSE,
   validated |-> FALSE, validationScore |-> -1,
   retries |-> r.retryCount,
   validationErrors |-> <<>>,
   actionsExecuted |-> <<>>,
   changesMade |-> BuildChangesMade(<<>>)]

\* mutant: the cache is loaded whatever the mode
Classify_AlwaysLoads ==
  /\ pc = "Classifying"
  /\ LET analysis == AnalyzeTaskComplexity(config.task) IN
       /\ run' = [run EXCEPT !.analysis = analysis]
       /\ IF config.workspacePath # NULL
          THEN /\ pc' = "BuildingContext"
               /\ getter' = [getter EXCEPT !["run"] = GetProjectCacheCall(config.workspacePath)]
          ELSE /\ pc' = "AssemblingPrompt"
               /\ UNCHANGED getter
  /\ UNCHANGED <<files, shell, config, settings, exec, hist, result, projectCaches, now, fs>>

\* Step 1, and the condition of Step 2
Classify ==
  /\ pc = "Classifying"
  /\ LET analysis == AnalyzeTaskComplexity(config.task) IN
       /\ run' = [run EXCEPT !.analysis = analysis]
       /\ IF analysis.needsContext /\ config.workspacePath # NULL
             /\ analysis.mode # "instant"
          THEN /\ pc' = "BuildingContext"
               /\ getter' = [getter EXCEPT !["run"] = GetProjectCacheCall(config.workspacePath)]
          ELSE /\ pc' = "AssemblingPrompt"
               /\ UNCHANGED getter
  /\ UNCHANGED <<files, shell, config, settings, exec, hist, result, projectCaches, now, fs>>

\* cache = await getProjectCache(config.workspacePath) settles.  Step 2.5 (the
\* web search) follows it: searchWeb catches its own errors and its result
\* only adds text to the prompt, so it changes none of the state kept here.
ContextLoaded ==
  /\ pc = "BuildingContext"
  /\ getter["run"].pc = "returned"
  /\ run' = [run EXCEPT !.cache = getter["run"].ret]
  /\ getter' = [getter EXCEPT !["run"].pc = "idle"]
  /\ pc' = "AssemblingPrompt"
  /\ UNCHANGED <<files, shell, config, settings, exec, hist, result, projectCaches, now, fs>>

\* getSmartSystemPrompt(analysis.mode, cache, enableWebSearch): the base
\* prompt, the section of the mode and, outside instant mode, the cache's text
GetSmartSystemPrompt(mode, cache) ==
  [mode |-> mode,
   projectContext |->
     IF mode # "instant" /\ cache # NoSnapshot
     THEN <<cache.projectStructure, cache.commonPatterns, cache.dependencies>>
     ELSE <<>>]

\* mutant: every retry carries the block
CarriesErrorBlock_EveryRetry(r) == r.retryCount > 0

\* if (retryCount > 0 && lastValidationResult && !lastValidationResult.isValid)
CarriesErrorBlock(r) ==
  /\ r.retryCount > 0
  /\ r.lastValidationResult # NoVerdict
  /\ ~r.lastValidationResult.isValid

\* top of the loop body: the prompts are built and callAI is issued; the
\* lists of the attempt before are out of scope.  discarded is the history of
\* the requests that succeeded in attempts that ended in a retry.
AssemblePromptRecording(discarded) ==
  /\ pc = "AssemblingPrompt"
  /\ run.retryCount <= maxRetries
  /\ run' = [run EXCEPT
       !.errorContext =
          IF CarriesErrorBlock(run)
          THEN GenerateErrorContext(run.lastValidationResult)
          ELSE <<>>,
       !.code = <<>>, !.cleanedCode = <<>>, !.suggestedActions = <<>>,
       !.actIdx = 0, !.executedActions = <<>>, !.actionExecutor = FALSE]
  /\ hist' = [hist EXCEPT !.aiCalls = @ + 1, !.attempt = @ + 1,
                          !.prevLog = hist.attemptLog,
                          !.discarded = discarded,
                          !.systemPrompts =
                             @ \cup {GetSmartSystemPrompt(run.analysis.mode, run.cache)},
                          !.attemptLog = <<>>, !.outcomes = <<>>]
  /\ exec' = IdleExec
  /\ pc' = "InvokingModel"
  /\ UNCHANGED <<files, shell, config, settings, result, projectCaches, now, fs, getter>>

AssemblePrompt == AssemblePromptRecording(hist.discarded)

\* the same step, with the history kept
AssemblePromptAudited ==
  AssemblePromptRecording(
    hist.discarded \cup {run.executedActions[i] : i \in 1..Len(run.executedActions)})

\* mutant: the first failure is rethrown
InnerError_NoRetry ==
  /\ result' = FatalResult(run)
  /\ pc' = "Done"
  /\ UNCHANGED run

\* mutant: with no retry left the error is dropped and nothing is returned
InnerError_Hangs ==
  IF run.retryCount < maxRetries
  THEN /\ run' = [run EXCEPT !.retryCount = @ + 1]
       /\ pc' = "AssemblingPrompt"
       /\ UNCHANGED result
  ELSE /\ pc' = "Hung"
       /\ UNCHANGED <<run, result>>

\* catch (innerError): retry while retries remain, else rethrow to the outer
\* catch, which returns the failure
InnerError ==
  IF run.retryCount < maxRetries
  THEN /\ run' = [run EXCEPT !.retryCount = @ + 1]
       /\ pc' = "AssemblingPrompt"
       /\ UNCHANGED result
  ELSE /\ result' = FatalResult(run)
       /\ pc' = "Done"
       /\ UNCHANGED run

\* callAI throws, or returns no text (null or "")
ModelFails ==
  /\ pc = "InvokingModel"
  /\ InnerError
  /\ hist' = [hist EXCEPT !.modelFailures = @ + 1, !.prevLog = <<>>]
  /\ UNCHANGED <<files, shell, config, settings, exec, projectCaches, now, fs, getter>>

\* texts the model may return
ModelOutputs ==
  {<<"code">>,
   <<"fenceLang", "code", "fence">>,
   <<"expl", "blank", "code">>,
   <<"mInstallA", "code">>,
   <<"mRunScript", "code", "mInstallB">>,
   <<"fenceLang", "mCreateFile", "mCreateFolder", "code", "fence">>}

\* mutant: a retry takes the list of the attempt before it
ModelReturns_ReusesList ==
  /\ pc = "InvokingModel"
  /\ \E text \in ModelOutputs :
       LET suggested == IF config.workspacePath = NULL THEN <<>>
                        ELSE IF hist.attempt > 1 THEN hist.prevLog
                        ELSE ParseActions(text)
       IN /\ run' = [run EXCEPT !.code = text,
                                !.cleanedCode = CleanCodeResponse(text),
                                !.suggestedActions = suggested,
                                !.actionExecutor = Len(suggested) > 0]
          /\ pc' = IF Len(suggested) > 0 THEN "ExecutingSideEffects" ELSE "Validating"
  /\ hist' = [hist EXCEPT !.prevLog = <<>>]
  /\ UNCHANGED <<files, shell, config, settings, exec, result, projectCaches, now, fs, getter>>

\* callAI returns text: it is cleaned, and with a workspace its markers are parsed
ModelReturns ==
  /\ pc = "InvokingModel"
  /\ \E text \in ModelOutputs :
       LET suggested == IF config.workspacePath # NULL THEN ParseActions(text) ELSE <<>>
       IN /\ run' = [run EXCEPT !.code = text,
                                !.cleanedCode = CleanCodeResponse(text),
                                !.suggestedActions = suggested,
                                !.actionExecutor = Len(suggested) > 0]
          /\ pc' = IF Len(suggested) > 0 THEN "ExecutingSideEffects" ELSE "Validating"
  /\ hist' = [hist EXCEPT !.prevLog = <<>>]
  /\ UNCHANGED <<files, shell, config, settings, exec, result, projectCaches, now, fs, getter>>

\* mutant: the list is walked from its end
ExecuteNext_Reverse ==
  /\ pc = "ExecutingSideEffects"
  /\ exec.step = "Idle"
  /\ run.actIdx < Len(run.suggestedActions)
  /\ LET action == run.suggestedActions[Len(run.suggestedActions) - run.actIdx] IN
       /\ exec' = ExecuteCall(exec, action)
       /\ hist' = [hist EXCEPT !.attemptLog = Append(@, action)]
  /\ UNCHANGED <<files, shell, config, settings, pc, run, result, projectCaches, now, fs, getter>>

\* for (const action of suggestedActions): await actionExecutor.execute(action)
ExecuteNext ==
  /\ pc = "ExecutingSideEffects"
  /\ exec.step = "Idle"
  /\ run.actIdx < Len(run.suggestedActions)
  /\ LET action == run.suggestedActions[run.actIdx + 1] IN
       /\ exec' = ExecuteCall(exec, action)
       /\ hist' = [hist EXCEPT !.attemptLog = Append(@, action)]
  /\ UNCHANGED <<files, shell, config, settings, pc, run, result, projectCaches, now, fs, getter>>

\* mutant: the first request that does not succeed ends the batch
ExecuteSettled_AbortOnFailure ==
  /\ pc = "ExecutingSideEffects"
  /\ exec.step = "Returned"
  /\ run' = [run EXCEPT
       !.actIdx = @ + 1,
       !.executedActions = IF Success(exec.res) THEN Append(@, exec.req) ELSE @]
  /\ hist' = [hist EXCEPT !.outcomes = Append(@, [req |-> exec.req, res |-> exec.res])]
  /\ exec' = [exec EXCEPT !.step = "Idle", !.req = NoRequest, !.res = "none",
                          !.prompted = FALSE, !.executing = FALSE]
  /\ pc' = IF run.actIdx + 1 = Len(run.suggestedActions) \/ ~Success(exec.res)
           THEN "Validating" ELSE "ExecutingSideEffects"
  /\ UNCHANGED <<files, shell, config, settings, result, projectCaches, now, fs, getter>>

\* mutant: every request is pushed, whatever its result
ExecuteSettled_PushAll ==
  /\ pc = "ExecutingSideEffects"
  /\ exec.step = "Returned"
  /\ run' = [run EXCEPT !.actIdx = @ + 1,
                        !.executedActions = Append(@, exec.req)]
  /\ hist' = [hist EXCEPT !.outcomes = Append(@, [req |-> exec.req, res |-> exec.res])]
  /\ exec' = [exec EXCEPT !.step = "Idle", !.req = NoRequest, !.res = "none",
                          !.prompted = FALSE, !.executing = FALSE]
  /\ pc' = IF run.actIdx + 1 = Len(run.suggestedActions)
           THEN "Validating" ELSE "ExecutingSideEffects"
  /\ UNCHANGED <<files, shell, config, settings, result, projectCaches, now, fs, getter>>

\* the execute call settles: a success is pushed, a failure is only logged
ExecuteSettled ==
  /\ pc = "ExecutingSideEffects"
  /\ exec.step = "Returned"
  /\ run' = [run EXCEPT
       !.actIdx = @ + 1,
       !.executedActions = IF Success(exec.res) THEN Append(@, exec.req) ELSE @]
  /\ hist' = [hist EXCEPT !.outcomes = Append(@, [req |-> exec.req, res |-> exec.res])]
  /\ exec' = [exec EXCEPT !.step = "Idle", !.req = NoRequest, !.res = "none",
                          !.prompted = FALSE, !.executing = FALSE]
  /\ pc' = IF run.actIdx + 1 = Len(run.suggestedActions)
           THEN "Validating" ELSE "ExecutingSideEffects"
  /\ UNCHANGED <<files, shell, config, settings, result, projectCaches, now, fs, getter>>

\* mutant: acceptance decided by the score
ValidateEnabled_ScoreGate ==
  \E verdict \in Verdicts :
    /\ hist' = [hist EXCEPT !.badVerdicts = IF verdict.score >= 80 THEN @ ELSE @ + 1]
    /\ IF verdict.score >= 80
       THEN /\ result' = SuccessResult(run, verdict, TRUE)
            /\ run' = [run EXCEPT !.lastValidationResult = verdict]
            /\ pc' = "Done"
       ELSE IF run.retryCount < maxRetries
       THEN /\ run' = [run EXCEPT !.lastValidationResult = verdict,
                                  !.retryCount = @ + 1]
            /\ pc' = "AssemblingPrompt"
            /\ UNCHANGED result
       ELSE /\ result' = ExhaustedResult(run, verdict)
            /\ run' = [run EXCEPT !.lastValidationResult = verdict]
            /\ pc' = "Done"

\* Step 5 with validation enabled: the verdict decides success, retry or
\* failure with the code
ValidateEnabled ==
  \E verdict \in Verdicts :
    /\ hist' = [hist EXCEPT !.badVerdicts = IF verdict.isValid THEN @ ELSE @ + 1]
    /\ IF verdict.isValid
       THEN /\ result' = SuccessResult(run, verdict, TRUE)
            /\ run' = [run EXCEPT !.lastValidationResult = verdict]
            /\ pc' = "Done"
       ELSE IF run.retryCount < maxRetries
       THEN /\ run' = [run EXCEPT !.lastValidationResult = verdict,
                                  !.retryCount = @ + 1]
            /\ pc' = "AssemblingPrompt"
            /\ UNCHANGED result
       ELSE /\ result' = ExhaustedResult(run, verdict)
            /\ run' = [run EXCEPT !.lastValidationResult = verdict]
            /\ pc' = "Done"

\* Step 5 with validation disabled: return immediately
ValidateDisabled ==
  /\ result' = SuccessResult(run, NoVerdict, FALSE)
  /\ pc' = "Done"
  /\ UNCHANGED <<run, hist>>

\* Step 5
Validate ==
  /\ pc = "Validating"
  /\ IF enableValidation THEN ValidateEnabled ELSE ValidateDisabled
  /\ UNCHANGED <<files, shell, config, settings, exec, projectCaches, now, fs, getter>>

(***************************************************************************)
(* One run of executeSmartAgent                                            *)
(***************************************************************************)
(***************************************************************************)
(* The fixCode.open handler after sendToAIAgent has returned, and           *)
(* applyCodeFix (smartAgent.ts)                                            *)
(***************************************************************************)
\* a string is truthy unless it is empty
Truthy(code) == code \notin {<<>>, EmptyText}

\* validationErrors is a field of the validation-failed result only
HasValidationErrors(res) == res.kind = "FailedExhausted"

\* applyCodeFix up to its prompt: with autoApply the range is replaced
ApplyCodeFix(sh, code, autoApply) ==
  IF autoApply
  THEN [sh EXCEPT !.document = CleanMarkdownCodeFences(code), !.step = "Finished"]
  ELSE [sh EXCEPT !.step = "ApplyPrompt"]

\* mutant: every result that carries code is applied
ShellReceives_AppliesAnyCode ==
  /\ pc = "Done"
  /\ shell.step = "Waiting"
  /\ \E autoApply \in BOOLEAN :
       shell' = IF Truthy(result.code)
                THEN ApplyCodeFix(shell, result.code, autoApply)
                ELSE [shell EXCEPT !.step = "Error"]
  /\ UNCHANGED <<files, config, settings, pc, run, exec, hist, result, projectCaches, now, fs, getter>>

\* the three branches on the result of the run
ShellReceives ==
  /\ pc = "Done"
  /\ shell.step = "Waiting"
  /\ \E autoApply \in BOOLEAN :
       shell' = IF result.success /\ Truthy(result.code)
                THEN ApplyCodeFix(shell, result.code, autoApply)
                ELSE IF ~result.success /\ Truthy(result.code) /\ HasValidationErrors(result)
                THEN [shell EXCEPT !.step = "ValidationFailedPrompt"]
                ELSE [shell EXCEPT !.step = "Error"]
  /\ UNCHANGED <<files, config, settings, pc, run, exec, hist, result, projectCaches, now, fs, getter>>

\* the answer to the warning with "Apply Anyway" and "Cancel"
AnswerValidationFailed ==
  /\ shell.step = "ValidationFailedPrompt"
  /\ \E action \in {"Apply Anyway", "Cancel", Undefined}, autoApply \in BOOLEAN :
       shell' = IF action = "Apply Anyway"
                THEN ApplyCodeFix([shell EXCEPT !.applyAnyway = TRUE], result.code, autoApply)
                ELSE [shell EXCEPT !.step = "Finished"]
  /\ UNCHANGED <<files, config, settings, pc, run, exec, hist, result, projectCaches, now, fs, getter>>

\* the answer to "Code fix ready. What would you like to do?"
AnswerApply ==
  /\ shell.step = "ApplyPrompt"
  /\ \E action \in {"Replace", "Show Diff", "Copy to Clipboard", "Cancel", Undefined} :
       shell' = IF action = "Replace"
                THEN [shell EXCEPT !.document = CleanMarkdownCodeFences(result.code),
                                   !.step = "Finished"]
                ELSE [shell EXCEPT !.step = "Finished"]
  /\ UNCHANGED <<files, config, settings, pc, run, exec, hist, result, projectCaches, now, fs, getter>>

\* an entry that an earlier run stored for p, from a manifest since replaced
EarlierSnapshot ==
  [projectStructure |-> BuildProjectStructure([dir |-> "d1", manifest |-> "m2"]),
   commonPatterns   |-> DetectCommonPatterns([dir |-> "d1", manifest |-> "m2"]),
   dependencies     |-> GetDependencies([dir |-> "d1", manifest |-> "m2"]),
   timestamp        |-> 0]

MaxRetriesSetting == 5

Tasks ==
  {[simpleKw |-> TRUE,  complexKw |-> FALSE, codeLines |-> 1,  promptLength |-> 8],
   [simpleKw |-> FALSE, complexKw |-> FALSE, codeLines |-> 15, promptLength |-> 23],
   [simpleKw |-> FALSE, complexKw |-> TRUE,  codeLines |-> 15, promptLength |-> 30]}

\* the default settings, and each with one setting changed by the user
SettingsChoices ==
  {DefaultSettings,
   [DefaultSettings EXCEPT !["allowScriptExecution"] = "true"],
   [DefaultSettings EXCEPT !["allowPackageInstall"] = "false"],
   [DefaultSettings EXCEPT !["requireConfirmation"] = "true"]}

Init ==
  /\ config \in [maxRetries : 0..MaxRetriesSetting,
                 enableValidation : BOOLEAN,
                 workspacePath : {"p", NULL},
                 task : Tasks]
  /\ settings \in SettingsChoices
  /\ config.workspacePath = NULL => settings = DefaultSettings
  /\ pc = "Classifying"
  /\ run = InitRun
  /\ exec = IdleExec
  /\ result = NoResult
  /\ projectCaches \in {EmptyMap, MapSet(EmptyMap, "p", EarlierSnapshot)}
  /\ now = 0
  /\ fs \in {f \in [Roots -> FsStates] : f["q"] = f["p"] /\ f["p"].manifest # "m2"}
  /\ config.workspacePath = NULL => fs["p"].dir = "d1"
  /\ getter = [c \in {"run"} |-> IdleGetter]
  /\ files \in [Paths -> {Absent, "original"}]
  /\ settings # DefaultSettings => fs["p"].dir = "d1"
  /\ config.maxRetries > 3 => settings = DefaultSettings /\ files = NoFiles
  /\ (config.workspacePath = NULL \/ settings # DefaultSettings \/ fs["p"].dir # "d1")
       => files = NoFiles
  /\ shell = IdleShell
  /\ projectCaches # EmptyMap =>
       /\ config.workspacePath = "p" /\ config.maxRetries <= 1
       /\ settings = DefaultSettings /\ fs["p"].dir = "d1" /\ files = NoFiles
  /\ hist = [InitHist EXCEPT !.filesAtStart = files, !.cachesAtStart = projectCaches]

Next ==
  \/ Classify
  \/ \E c \in DOMAIN getter : ReadStructure(c)
  \/ \E c \in DOMAIN getter : ReadPatterns(c)
  \/ \E c \in DOMAIN getter : ReadDependencies(c)
  \/ ContextLoaded
  \/ AssemblePrompt
  \/ ModelFails
  \/ ModelReturns
  \/ ExecuteNext
  \/ ConfirmAnswer
  \/ RunAction
  \/ ExecuteSettled
  \/ Validate
  \/ ShellReceives
  \/ AnswerValidationFailed
  \/ AnswerApply

Spec == Init /\ [][Next]_vars

\* the steps of executeSmartAgent and of the calls it awaits
RunNext ==
  \/ Classify
  \/ \E c \in DOMAIN getter : ReadStructure(c)
  \/ \E c \in DOMAIN getter : ReadPatterns(c)
  \/ \E c \in DOMAIN getter : ReadDependencies(c)
  \/ ContextLoaded
  \/ AssemblePrompt
  \/ ModelFails
  \/ ModelReturns
  \/ ExecuteNext
  \/ ConfirmAnswer
  \/ RunAction
  \/ ExecuteSettled
  \/ Validate

\* the run with the history of discarded requests kept
AuditInit ==
  /\ Init
  /\ config.maxRetries <= 1
  /\ files = NoFiles
  /\ projectCaches = EmptyMap

AuditNext ==
  \/ Classify
  \/ \E c \in DOMAIN getter : ReadStructure(c)
  \/ \E c \in DOMAIN getter : ReadPatterns(c)
  \/ \E c \in DOMAIN getter : ReadDependencies(c)
  \/ ContextLoaded
  \/ AssemblePromptAudited
  \/ ModelFails
  \/ ModelReturns
  \/ ExecuteNext
  \/ ConfirmAnswer
  \/ RunAction
  \/ ExecuteSettled
  \/ Validate

AuditSpec == AuditInit /\ [][AuditNext]_vars

\* every awaited call settles: the run takes a step whenever it has one
LiveInit ==
  /\ Init
  /\ config.maxRetries <= 3
  /\ files = NoFiles
  /\ projectCaches = EmptyMap

LiveSpec == LiveInit /\ [][RunNext]_vars /\ WF_vars(RunNext)

(***************************************************************************)
(* The executor on its own: any caller may pass requests of any kind.      *)
(***************************************************************************)
MaxRequests == 2    \* requests passed to the executor in ExecSpec

PermissionSettings ==
  {DefaultSettings}
  \cup {[DefaultSettings EXCEPT ![k] = "true"] : k \in PermissionKeys}
  \cup {[DefaultSettings EXCEPT ![k] = "false"] : k \in PermissionKeys}

DirectExecute(type) ==
  /\ pc = "Executor"
  /\ exec.step = "Idle"
  /\ Len(hist.attemptLog) < MaxRequests
  /\ LET action == [type |-> type, marker |-> "direct"] IN
       /\ exec' = ExecuteCall(exec, action)
       /\ hist' = [hist EXCEPT !.attemptLog = Append(@, action)]
  /\ UNCHANGED <<files, shell, config, settings, pc, run, result, projectCaches, now, fs, getter>>

DirectSettled ==
  /\ pc = "Executor"
  /\ exec.step = "Returned"
  /\ hist' = [hist EXCEPT !.outcomes = Append(@, [req |-> exec.req, res |-> exec.res])]
  /\ exec' = [exec EXCEPT !.step = "Idle", !.req = NoRequest, !.res = "none",
                          !.prompted = FALSE, !.executing = FALSE]
  /\ UNCHANGED <<files, shell, config, settings, pc, run, result, projectCaches, now, fs, getter>>

NoConfig ==
  [maxRetries |-> 2, enableValidation |-> TRUE, workspacePath |-> NULL,
   task |-> [simpleKw |-> TRUE, complexKw |-> FALSE, codeLines |-> 1, promptLength |-> 8]]

ExecInit ==
  /\ config = NoConfig
  /\ settings \in PermissionSettings
  /\ pc = "Executor"
  /\ run = InitRun
  /\ exec = IdleExec
  /\ hist = InitHist
  /\ result = NoResult
  /\ projectCaches = EmptyMap
  /\ now = 0
  /\ fs = [r \in Roots |-> [dir |-> "d1", manifest |-> "m1"]]
  /\ getter = [c \in {"run"} |-> IdleGetter]
  /\ files = NoFiles
  /\ shell = IdleShell

ExecNext ==
  \/ \E type \in ActionTypes : DirectExecute(type)
  \/ ConfirmAnswer
  \/ RunAction
  \/ DirectSettled

ExecSpec == ExecInit /\ [][ExecNext]_vars

(***************************************************************************)
(* The cache on its own: one caller makes getProjectCache calls one after  *)
(* the other, while time passes, the project changes on disk and the       *)
(* shell clears caches.                                                    *)
(***************************************************************************)
CacheDurationChoices == {1, 5, 10}

\* a caller calls getProjectCache(root); prev is what the last settled call
\* for this root returned, if no clear came since
CallGet(c, root) ==
  /\ pc = "Cache"
  /\ getter[c].pc = "idle"
  /\ LET g == GetProjectCacheCall(root) IN
       /\ getter' = [getter EXCEPT ![c] = [g EXCEPT !.prev = hist.lastRet[root],
                                                    !.afterClear = root \in hist.cleared,
                                                    !.hitPreClear =
                                                       g.hit /\ root \in hist.preClearEntry]]
       /\ hist' = [hist EXCEPT !.lastRet[root] = IF g.hit THEN g.ret ELSE @,
                               !.cleared = @ \ {root}]
  /\ UNCHANGED <<files, shell, config, settings, pc, run, exec, result, projectCaches, now, fs>>

\* the caller receives the snapshot
GetSettled(c) ==
  /\ pc = "Cache"
  /\ getter[c].pc = "returned"
  /\ getter' = [getter EXCEPT ![c] = IdleGetter]
  /\ UNCHANGED <<files, shell, config, settings, pc, run, exec, hist, result, projectCaches, now, fs>>

CacheInit ==
  /\ config = NoConfig
  /\ settings \in {[DefaultSettings EXCEPT !["cacheDuration"] = d] : d \in CacheDurationChoices}
  /\ pc = "Cache"
  /\ run = InitRun
  /\ exec = IdleExec
  /\ hist = InitHist
  /\ result = NoResult
  /\ projectCaches = EmptyMap
  /\ now = 0
  /\ fs = [r \in Roots |-> [dir |-> "d1", manifest |-> "m1"]]
  /\ getter = [c \in {"c1"} |-> IdleGetter]
  /\ files = NoFiles
  /\ shell = IdleShell

CacheNext ==
  \/ \E c \in DOMAIN getter : CallGet(c, "p")
  \/ \E c \in DOMAIN getter : ReadStructure(c)
  \/ \E c \in DOMAIN getter : ReadPatterns(c)
  \/ \E c \in DOMAIN getter : ReadDependencies(c)
  \/ \E c \in DOMAIN getter : GetSettled(c)
  \/ \E root \in Roots : ClearProjectCache(root)
  \/ ClearAllCaches
  \/ Tick
  \/ \E f \in {g \in FsStates : g.dir = "d1"} : FsChange("p", f)

CacheSpec == CacheInit /\ [][CacheNext]_vars

(***************************************************************************)
(* Step 1 alone, over instructions given as the phrases they contain.      *)
(***************************************************************************)
Phrases == {"Fix Typo", "format", "IMPLEMENT", "create", "refactor"}

\* userPrompt.toLowerCase()
ToLowerCase(phrase) ==
  CASE phrase = "Fix Typo" -> "fix typo"
    [] phrase = "IMPLEMENT" -> "implement"
    [] OTHER -> phrase

simpleKeywords ==
  {"fix typo", "add comment", "rename variable", "format", "prettier",
   "indent", "remove console", "add semicolon", "fix syntax"}

complexKeywords ==
  {"implement", "create", "build", "design", "architect", "restructure",
   "migrate", "rewrite"}

\* keywords.some((k) => prompt.includes(k))
SomeKeyword(keywords, phrases) ==
  \E phrase \in phrases : ToLowerCase(phrase) \in keywords

PromptLengths == {20, 100, 101}

CodeLineCounts == {1, 9, 10, 11, 100, 101}

\* the instruction and the selected code, as analyzeTaskComplexity reads them
TaskOf(phrases, promptLength, codeLines) ==
  [phrases |-> phrases,
   simpleKw |-> SomeKeyword(simpleKeywords, phrases),
   complexKw |-> SomeKeyword(complexKeywords, phrases),
   codeLines |-> codeLines, promptLength |-> promptLength]

ClassifyInit ==
  /\ \E phrases \in SUBSET Phrases, n \in PromptLengths, l \in CodeLineCounts :
       config = [maxRetries |-> 2, enableValidation |-> TRUE, workspacePath |-> "p",
                 task |-> TaskOf(phrases, n, l)]
  /\ settings = DefaultSettings
  /\ pc = "Classifying"
  /\ run = InitRun
  /\ exec = IdleExec
  /\ hist = InitHist
  /\ result = NoResult
  /\ projectCaches = EmptyMap
  /\ now = 0
  /\ fs = [r \in Roots |-> [dir |-> "d1", manifest |-> "m1"]]
  /\ getter = [c \in {"run"} |-> IdleGetter]
  /\ files = NoFiles
  /\ shell = IdleShell

ClassifyNext == Classify

ClassifySpec == ClassifyInit /\ [][ClassifyNext]_vars

(***************************************************************************)
(* validateCode alone, over the numbers of errors and warnings that the    *)
(* validator of the file type finds in the code.                           *)
(***************************************************************************)
MaxFoundErrors == 11
MaxFoundWarnings == 51

\* validateCode: each of the three validators collects errors and warnings
\* and returns { isValid, errors, warnings, suggestions, score }
ValidateCode(found) == MakeVerdict(ErrorList(found.errors), found.warnings)

RunValidator ==
  /\ pc = "Validator"
  /\ run' = [run EXCEPT !.lastValidationResult = ValidateCode(config.found)]
  /\ pc' = "Validated"
  /\ UNCHANGED <<files, shell, config, settings, exec, hist, result, projectCaches, now, fs, getter>>

ValidatorInit ==
  /\ \E e \in 0..MaxFoundErrors, w \in 0..MaxFoundWarnings :
       config = [maxRetries |-> 2, enableValidation |-> TRUE, workspacePath |-> NULL,
                 task |-> TaskOf({}, 20, 1),
                 found |-> [errors |-> e, warnings |-> w]]
  /\ settings = DefaultSettings
  /\ pc = "Validator"
  /\ run = InitRun
  /\ exec = IdleExec
  /\ hist = InitHist
  /\ result = NoResult
  /\ projectCaches = EmptyMap
  /\ now = 0
  /\ fs = [r \in Roots |-> [dir |-> "d1", manifest |-> "m1"]]
  /\ getter = [c \in {"run"} |-> IdleGetter]
  /\ files = NoFiles
  /\ shell = IdleShell

ValidatorNext == RunValidator

ValidatorSpec == ValidatorInit /\ [][ValidatorNext]_vars

(***************************************************************************)
(* performBasicValidation (codeValidator.ts): validateCode for a file that  *)
(* is neither of the TypeScript/JavaScript family nor Python                *)
(***************************************************************************)
MaxTextLen == 3

\* the characters of a one-line text
Chars == {"{", "}", "[", "]", "(", ")", "a", " "}

RECURSIVE CodeTexts(_)
CodeTexts(n) ==
  IF n = 0 THEN {<<>>}
  ELSE LET shorter == CodeTexts(n - 1) IN
         shorter \cup {Append(t, ch) : t \in {u \in shorter : Len(u) = n - 1}, ch \in Chars}

Openers == {"{", "[", "("}
closeBrackets == [ch \in {"}", "]", ")"} |->
                   IF ch = "}" THEN "{" ELSE IF ch = "]" THEN "[" ELSE "("]

\* brackets[open] after the characters up to position i: ++ on the opener,
\* -- on its closer
RECURSIVE BracketCount(_, _, _)
BracketCount(text, open, i) ==
  IF i = 0 THEN 0
  ELSE BracketCount(text, open, i - 1)
       + (IF text[i] = open THEN 1
          ELSE IF text[i] \in DOMAIN closeBrackets /\ closeBrackets[text[i]] = open
          THEN 0 - 1 ELSE 0)

\* one error per bracket kind whose count is not 0; a warning for trailing
\* white space (no line of the model is longer than 200 characters)
PerformBasicValidation(text) ==
  LET unmatched == {open \in Openers : BracketCount(text, open, Len(text)) # 0}
      trailing == IF text # <<>> /\ text[Len(text)] = " " THEN 1 ELSE 0
  IN MakeVerdict(ErrorList(Cardinality(unmatched)), trailing)

RunBasicValidation ==
  /\ pc = "BasicValidator"
  /\ run' = [run EXCEPT !.lastValidationResult = PerformBasicValidation(config.text)]
  /\ pc' = "BasicValidated"
  /\ UNCHANGED <<files, shell, config, settings, exec, hist, result, projectCaches, now, fs, getter>>

BasicInit ==
  /\ \E text \in CodeTexts(MaxTextLen) :
       config = [maxRetries |-> 2, enableValidation |-> TRUE, workspacePath |-> NULL,
                 task |-> TaskOf({}, 20, 1), text |-> text]
  /\ settings = DefaultSettings
  /\ pc = "BasicValidator"
  /\ run = InitRun
  /\ exec = IdleExec
  /\ hist = InitHist
  /\ result = NoResult
  /\ projectCaches = EmptyMap
  /\ now = 0
  /\ fs = [r \in Roots |-> [dir |-> "d1", manifest |-> "m1"]]
  /\ getter = [c \in {"run"} |-> IdleGetter]
  /\ files = NoFiles
  /\ shell = IdleShell

BasicNext == RunBasicValidation

BasicSpec == BasicInit /\ [][BasicNext]_vars

(***************************************************************************)
(* Two runs share the context cache: their getProjectCache calls for the   *)
(* same root interleave at the awaits of the build.                        *)
(***************************************************************************)
Callers == {"c1", "c2"}

ConcInit ==
  /\ config = NoConfig
  /\ settings = DefaultSettings
  /\ pc = "Cache"
  /\ run = InitRun
  /\ exec = IdleExec
  /\ hist = InitHist
  /\ result = NoResult
  /\ projectCaches = EmptyMap
  /\ now = 0
  /\ fs = [r \in Roots |-> [dir |-> "d1", manifest |-> "m1"]]
  /\ getter = [c \in Callers |-> IdleGetter]
  /\ files = NoFiles
  /\ shell = IdleShell

ConcNext ==
  \/ \E c \in Callers : CallGet(c, "p")
  \/ \E c \in Callers : ReadStructure(c)
  \/ \E c \in Callers : ReadPatterns(c)
  \/ \E c \in Callers : ReadDependencies(c)
  \/ \E c \in Callers : GetSettled(c)
  \/ Expire
  \/ \E f \in FsStates : FsChange("p", f)

ConcSpec == ConcInit /\ [][ConcNext]_vars

(***************************************************************************)
(* Properties                                                              *)
(***************************************************************************)
Returned == result.kind # "none"

RECURSIVE Requests(_)
Requests(outcomes) ==
  IF outcomes = <<>> THEN <<>>
  ELSE <<Head(outcomes).req>> \o Requests(Tail(outcomes))

RECURSIVE SucceededRequests(_)
SucceededRequests(outcomes) ==
  IF outcomes = <<>> THEN <<>>
  ELSE (IF Success(Head(outcomes).res) THEN <<Head(outcomes).req>> ELSE <<>>)
       \o SucceededRequests(Tail(outcomes))

\* C1: the retries value of the returned result never exceeds the
\* configured maxRetries, for every configured value 0..5.
C1_RetriesWithinConfigured ==
  Returned => result.retries <= config.maxRetries

\* C2: whatever mix of thrown invocations and unacceptable verdicts, a run
\* makes at most configured maxRetries + 1 model invocations.
C2_InvocationsWithinConfigured ==
  hist.aiCalls <= config.maxRetries + 1

\* C3: a result with success = true was produced with validation disabled,
\* or the verdict of the run's last validation pass had no errors.
C3_SuccessImpliesAcceptable ==
  (Returned /\ result.success) =>
     \/ ~enableValidation
     \/ /\ run.lastValidationResult # NoVerdict
        /\ run.lastValidationResult.isValid
        /\ Len(run.lastValidationResult.errors) = 0

C3_Witness ==
  /\ Returned /\ result.success /\ enableValidation
  /\ result.retries > 0
  /\ run.lastValidationResult.warnings > 0

\* C4: the code returned on Succeeded and on FailedExhausted contains no
\* marker that parseActions recognised in the model output.
C4_NoMarkerInCode ==
  (Returned /\ result.kind \in {"Succeeded", "FailedExhausted"}) =>
     \A a \in Range(ParseActions(run.code)) : a.marker \notin Range(result.code)

\* C5: with no setting changed, a run_script or git_operation request is
\* denied before the Executing step (and without a prompt) and is never
\* executed, while a request of any other kind is allowed.
DangerousTypes == {"run_script", "git_operation"}

C5_DefaultDeniesScriptsAndGit ==
  settings = DefaultSettings =>
     /\ exec.req.type \in DangerousTypes =>
          exec.step = "Returned" /\ exec.res = "denied"
          /\ ~exec.executing /\ ~exec.prompted
     /\ exec.req.type \in ActionTypes \ DangerousTypes =>
          exec.res # "denied" /\ exec.executing
     /\ \A a \in Range(exec.executedActions) : a.type \notin DangerousTypes
     /\ \A o \in Range(hist.outcomes) :
          o.req.type \in DangerousTypes <=> o.res = "denied"

C5_Witness ==
  /\ settings = DefaultSettings
  /\ Len(hist.outcomes) = 2
  /\ hist.outcomes[1].req.type = "git_operation" /\ hist.outcomes[1].res = "denied"
  /\ hist.outcomes[2].req.type = "install_package" /\ hist.outcomes[2].res = "succeeded"

\* C6: every request parsed in an attempt is passed to execute exactly once,
\* in order, and a request that is denied, cancelled or fails neither ends
\* the batch nor changes retryCount, nor causes a model invocation or a
\* return.
C6_Passed ==
  /\ IsPrefix(hist.attemptLog, run.suggestedActions)
  /\ pc = "Validating" => hist.attemptLog = run.suggestedActions

C6_FailureStep ==
  (pc = "ExecutingSideEffects" /\ exec.step = "Returned" /\ ~Success(exec.res)) =>
     /\ run'.retryCount = run.retryCount
     /\ hist'.aiCalls = hist.aiCalls
     /\ result' = result
     /\ pc' = IF Len(hist.attemptLog) < Len(run.suggestedActions)
              THEN "ExecutingSideEffects" ELSE "Validating"

C6_FailuresDoNotStopTheBatch == [][C6_Passed' /\ C6_FailureStep]_vars

C6_Witness ==
  /\ pc = "Validating"
  /\ Len(hist.outcomes) = 2
  /\ hist.outcomes[1].res = "failed"
  /\ hist.outcomes[2].res = "denied"
  /\ run.retryCount = 0 /\ hist.aiCalls = 1

\* C7 as claimed: every request passed to the executor, denied and failed
\* ones included, has an outcome in the returned result, one per request in
\* execution order.
C7_EveryRequestRecorded ==
  Returned => result.actionsExecuted = hist.attemptLog

\* C7 as amended: a result that carries code lists in actionsExecuted exactly
\* the requests of its attempt whose execution succeeded, in execution order;
\* denied, cancelled and failed requests are not in the result, and a
\* FailedFatal result lists no request.
C7_SucceededRequestsRecorded ==
  /\ (Returned /\ result.kind \in {"Succeeded", "FailedExhausted"}) =>
        result.actionsExecuted = SucceededRequests(hist.outcomes)
  /\ (Returned /\ result.kind = "FailedFatal") => result.actionsExecuted = <<>>

C7_Witness ==
  /\ Returned /\ result.kind = "Succeeded"
  /\ Len(hist.outcomes) = 2
  /\ hist.outcomes[1].res = "succeeded"
  /\ hist.outcomes[2].res = "denied"
  /\ Len(result.actionsExecuted) = 1

\* C8: within an attempt the model invocation has completed before any side
\* effect starts, the requests are executed one at a time in the order of
\* the parser's list, and validation starts after the last one has finished.
C8_AttemptOrder ==
  /\ exec.step # "Idle" =>
       /\ pc = "ExecutingSideEffects"
       /\ run.code # <<>>
       /\ Len(hist.attemptLog) = run.actIdx + 1
       /\ exec.req = run.suggestedActions[run.actIdx + 1]
  /\ exec.step = "Idle" => Len(hist.attemptLog) = run.actIdx
  /\ Requests(hist.outcomes) = SubSeq(run.suggestedActions, 1, run.actIdx)
  /\ pc = "InvokingModel" => hist.attemptLog = <<>> /\ hist.outcomes = <<>>
  /\ pc = "Validating" =>
       /\ exec.step = "Idle"
       /\ Requests(hist.outcomes) = run.suggestedActions

C8_Witness ==
  /\ pc = "Validating"
  /\ run.code = <<"mRunScript", "code", "mInstallB">>
  /\ Len(hist.outcomes) = 2
  /\ hist.outcomes[1].req.marker = "mInstallB"
  /\ hist.outcomes[2].req.marker = "mRunScript"
  /\ hist.outcomes[2].res = "succeeded"

\* C9: for every configured cache duration, getProjectCache never returns an
\* existing entry whose age is at least the configured duration.
C9_NoHitBeyondConfigured ==
  \A c \in DOMAIN getter :
    (getter[c].pc = "returned" /\ getter[c].hit) =>
       getter[c].at - getter[c].ret.timestamp < ConfiguredCacheDuration(settings)

\* C10: a call made within the time-to-live (CACHE_DURATION) of the entry
\* that the previous call for the root returned, with no clear in between,
\* returns that same snapshot at once and reads nothing from the file system.
C10_RepeatedReadIdentical ==
  \A c \in DOMAIN getter :
    LET g == getter[c] IN
      (g.pc # "idle" /\ g.prev # NoSnapshot
         /\ g.at - g.prev.timestamp < CACHE_DURATION) =>
        /\ g.pc = "returned"
        /\ g.hit
        /\ g.ret = g.prev
        /\ g.reads = 0

C10_Witness ==
  \E c \in DOMAIN getter :
    LET g == getter[c] IN
      /\ g.pc = "returned" /\ g.hit
      /\ g.ret = g.prev
      /\ g.at - g.prev.timestamp = 4 * MINUTE
      /\ g.ret.dependencies # GetDependencies(fs[g.root])

\* C11: clearProjectCache(p) removes the entry of p and no other,
\* clearAllCaches removes every entry, and the first getProjectCache for a
\* root whose entry was removed is a miss that rebuilds the snapshot.
C11_ClearedRootMissesNext ==
  \A c \in DOMAIN getter :
    (getter[c].pc # "idle" /\ getter[c].afterClear) => ~getter[c].hit

\* C12: when the getProjectCache calls of two runs for the same root
\* overlap, each returns a complete snapshot made of its own three reads, and
\* once both have returned the map holds for the root one entry that is the
\* snapshot one of them returned.
Complete(snapshot) ==
  /\ snapshot.projectStructure \in {BuildProjectStructure(f) : f \in FsStates}
  /\ snapshot.commonPatterns \in {DetectCommonPatterns(f) : f \in FsStates}
  /\ snapshot.dependencies \in {GetDependencies(f) : f \in FsStates}
  /\ snapshot.timestamp >= 0

C12_ConcurrentBuildsTolerated ==
  /\ \A c \in DOMAIN getter :
       getter[c].pc = "returned" =>
         /\ Complete(getter[c].ret)
         /\ ~getter[c].hit =>
              /\ getter[c].reads = 3
              /\ getter[c].ret.projectStructure = getter[c].structure
              /\ getter[c].ret.commonPatterns = getter[c].patterns
  /\ (\A c \in DOMAIN getter : getter[c].pc = "returned") =>
       \A root \in {getter[c].root : c \in DOMAIN getter} :
         /\ root \in DOMAIN projectCaches
         /\ \E c \in DOMAIN getter : projectCaches[root] = getter[c].ret

C12_Witness ==
  /\ \A c \in Callers : getter[c].pc = "returned" /\ ~getter[c].hit
  /\ getter["c1"].ret # getter["c2"].ret
  /\ getter["c1"].at = 5 * MINUTE /\ getter["c2"].at = 5 * MINUTE
  /\ getter["c1"].prev # NoSnapshot
  /\ projectCaches["p"] = getter["c1"].ret

\* C13: with validation enabled, when each of the maxRetries + 1 attempts
\* of the run has produced an unacceptable verdict, the run has ended
\* FailedExhausted with success false, retries = maxRetries, the last
\* attempt's cleaned code and the errors of the last verdict.
C13_ExhaustedAfterAllRejected ==
  (enableValidation /\ hist.aiCalls = maxRetries + 1
     /\ hist.badVerdicts = hist.aiCalls) =>
       /\ pc = "Done"
       /\ result.kind = "FailedExhausted"
       /\ ~result.success
       /\ result.retries = maxRetries
       /\ result.code = CleanCodeResponse(run.code)
       /\ result.validationErrors = run.lastValidationResult.errors
       /\ ~run.lastValidationResult.isValid

C13_Witness ==
  /\ result.kind = "FailedExhausted"
  /\ config.maxRetries = 2
  /\ hist.badVerdicts = 3 /\ hist.aiCalls = 3
  /\ result.retries = 2
  /\ Len(result.validationErrors) = 1
  /\ result.code = <<"code">> /\ run.code = <<"fenceLang", "code", "fence">>

\* C14: a result with success false and no code is returned only by a step
\* in which the model invocation fails while retryCount equals maxRetries,
\* and it carries the failure reason; a failed invocation with retries left
\* returns nothing and leads to another attempt.
C14_FailureStep ==
  /\ (result' # result /\ result'.kind = "FailedFatal") =>
        /\ pc = "InvokingModel"
        /\ hist'.modelFailures = hist.modelFailures + 1
        /\ run.retryCount = maxRetries
        /\ ~result'.success
        /\ result'.code = <<>>
        /\ result'.error = "Failed to process"
  /\ (hist'.modelFailures # hist.modelFailures /\ run.retryCount < maxRetries) =>
        /\ result' = result
        /\ pc' = "AssemblingPrompt"
        /\ run'.retryCount = run.retryCount + 1
        /\ run'.retryCount <= maxRetries

C14_FailureSurfacedWhenExhausted == [][C14_FailureStep]_vars

C14_Witness ==
  /\ result.kind = "FailedFatal"
  /\ config.maxRetries = 1
  /\ hist.modelFailures = 1 /\ hist.badVerdicts = 1
  /\ result.retries = 1

C16_ScoreAndValidity ==
  pc = "Validated" =>
    LET verdict == run.lastValidationResult
        e == config.found.errors
        w == config.found.warnings
        raw == 100 - 10 * e - 2 * w
    IN /\ Len(verdict.errors) = e /\ verdict.warnings = w
       /\ verdict.score = IF raw < 0 THEN 0 ELSE IF raw > 100 THEN 100 ELSE raw
       /\ verdict.isValid <=> e = 0

C16_Witness ==
  /\ pc = "Validated"
  /\ config.found.errors = 0 /\ config.found.warnings = 51
  /\ run.lastValidationResult.isValid
  /\ run.lastValidationResult.score = 0

\* C17: a project whose directory cannot be read, or whose manifest is
\* missing or unparsable, does not make the run fail or report an error: the
\* snapshot is built with the placeholder sections, and the run goes on to
\* assemble the prompt and invoke the model; a run fails without code only
\* after failed model invocations.
DegradedRoot(root) ==
  fs[root].dir = "unreadable" \/ fs[root].manifest = "missing"

C17_ContextFailureAbsorbed ==
  /\ pc = "BuildingContext" =>
       /\ result = NoResult
       /\ run.retryCount = 0
  /\ (pc \notin {"Classifying", "BuildingContext"}
        /\ run.analysis.needsContext /\ config.workspacePath # NULL
        /\ ~getter["run"].hit) =>
       /\ run.cache.projectStructure =
            (IF fs[config.workspacePath].dir = "unreadable"
             THEN "Project structure unavailable" ELSE fs[config.workspacePath].dir)
       /\ run.cache.commonPatterns =
            (IF fs[config.workspacePath].manifest = "missing"
             THEN "No patterns detected" ELSE fs[config.workspacePath].manifest)
       /\ run.cache.dependencies =
            (IF fs[config.workspacePath].manifest = "missing"
             THEN "No dependencies found" ELSE fs[config.workspacePath].manifest)
       /\ hist.aiCalls = 0 => pc = "AssemblingPrompt"
  /\ (pc = "AssemblingPrompt" /\ hist.aiCalls = 0) =>
       /\ result = NoResult
       /\ run.retryCount = 0
  /\ result.kind = "FailedFatal" => hist.modelFailures > 0

C17_Witness ==
  /\ config.workspacePath = "p" /\ DegradedRoot("p")
  /\ run.analysis.needsContext
  /\ run.cache.projectStructure = "Project structure unavailable"
  /\ run.cache.dependencies = "No dependencies found"
  /\ result.kind = "Succeeded"
  /\ result.cachedUsed

\* C18: with validation enabled the document holds generated code only when
\* the last verdict was acceptable or "Apply Anyway" was chosen on the
\* validation-failed prompt; a FailedFatal result, and a FailedExhausted one
\* whose prompt was not answered with "Apply Anyway", leave the document alone
C18_DocumentReplacedOnlyWhenAccepted ==
  /\ (enableValidation /\ shell.document # OriginalText) =>
       \/ run.lastValidationResult # NoVerdict /\ run.lastValidationResult.isValid
       \/ shell.applyAnyway
  /\ result.kind = "FailedFatal" => shell.document = OriginalText
  /\ (result.kind = "FailedExhausted" /\ ~shell.applyAnyway) => shell.document = OriginalText

C18_Witness ==
  /\ enableValidation
  /\ result.kind = "FailedExhausted"
  /\ shell.applyAnyway
  /\ shell.document = result.code

\* C19: a create_file request only creates new files: a file that was at the
\* requested path before the run keeps its content
C19_ExistingFileUnchanged ==
  \A path \in Paths :
    hist.filesAtStart[path] # Absent => files[path] = hist.filesAtStart[path]

\* the requests that an attempt's own model output holds
ParsedOfAttempt ==
  IF config.workspacePath # NULL THEN ParseActions(run.code) ELSE <<>>

\* C20 as stated: on a retry after a rejected verdict, the list that is
\* executed is the list that the attempt before it parsed and executed
C20_RetryExecutesPreviousList ==
  [][(/\ pc = "InvokingModel"
      /\ pc' \in {"ExecutingSideEffects", "Validating"}
      /\ run.errorContext # <<>>)
     => run'.suggestedActions = hist.prevLog]_vars

\* C20, amended: every attempt, a retry included, executes the requests
\* parsed from its own model output, in full and in order, whatever an
\* earlier attempt executed; nothing is skipped because it succeeded before
C20_AttemptExecutesItsOwnList ==
  /\ pc = "ExecutingSideEffects" => IsPrefix(hist.attemptLog, ParsedOfAttempt)
  /\ pc = "Validating" => hist.attemptLog = ParsedOfAttempt

\* a retry that executes create_file for a file an earlier attempt wrote
C20_Witness ==
  /\ pc = "ExecutingSideEffects"
  /\ run.errorContext # <<>>
  /\ exec.step = "Executing"
  /\ exec.req.type = "create_file"
  /\ hist.filesAtStart[FilePathOf(exec.req)] = Absent
  /\ files[FilePathOf(exec.req)] = EmptyContent

\* the number of errors of the list that carry a suggestion
RECURSIVE SuggestionCount(_)
SuggestionCount(errors) ==
  IF errors = <<>> THEN 0
  ELSE (IF HasSuggestion(Head(errors)) THEN 1 ELSE 0) + SuggestionCount(Tail(errors))

\* C21: an attempt's user message carries the error block exactly when it is
\* a retry and a verdict was produced and rejected before it; the block has
\* one numbered line per error of the last verdict, each followed by its
\* suggestion when it has one; the first attempt and a retry after only
\* invocation failures carry none; the system message is the same throughout
C21_ErrorBlockOnRetryAfterRejection ==
  /\ pc = "InvokingModel" =>
       /\ (run.errorContext # <<>>) <=> (run.retryCount > 0 /\ hist.badVerdicts > 0)
       /\ hist.attempt = 1 => run.errorContext = <<>>
       /\ hist.badVerdicts = 0 => run.errorContext = <<>>
       /\ run.errorContext # <<>> =>
            LET errors == run.lastValidationResult.errors IN
              /\ Len(run.errorContext) = Len(errors) + SuggestionCount(errors) + 2
              /\ \A i \in 1..Len(errors) :
                   \E k \in 1..Len(run.errorContext) :
                     /\ run.errorContext[k] = <<"error", i, errors[i]>>
                     /\ HasSuggestion(errors[i]) =>
                          run.errorContext[k + 1] = <<"suggestion", errors[i]>>
  /\ Cardinality(hist.systemPrompts) <= 1

\* a retry that follows a rejected verdict and then an invocation failure
C21_Witness ==
  /\ pc = "InvokingModel"
  /\ hist.modelFailures > 0
  /\ Len(run.lastValidationResult.errors) = 2
  /\ Len(run.errorContext) = 5

\* the three outcomes of a call: "Action cancelled by user" is a failure
Outcome(res) == IF res = "cancelled" THEN "failed" ELSE res

\* C22: execute checks the permission, then asks for confirmation, then
\* executes: a disabled kind is denied with no prompt and no execution; with
\* requireConfirmation an allowed request is prompted, executes only after
\* "Yes" and fails with nothing executed on any other answer; a call that has
\* returned has exactly one of the outcomes succeeded, failed, denied
C22_PermissionConfirmationExecution ==
  LET cfg == GetActionConfig(settings)
      allowed == IsActionAllowed(cfg, exec.req.type)
  IN exec.req # NoRequest =>
       /\ ~allowed =>
            ~exec.prompted /\ ~exec.executing /\ exec.step = "Returned" /\ exec.res = "denied"
       /\ (allowed /\ cfg.requireConfirmation) =>
            /\ exec.prompted
            /\ exec.step = "Confirming" => ~exec.executing
            /\ exec.res = "cancelled" => ~exec.executing
       /\ (allowed /\ ~cfg.requireConfirmation) => ~exec.prompted /\ exec.executing
       /\ exec.res = "denied" => ~allowed
       /\ exec.step = "Returned" =>
            /\ Outcome(exec.res) \in {"succeeded", "failed", "denied"}
            /\ exec.res \in {"succeeded", "failed"} <=> exec.executing
       /\ exec.step # "Returned" => exec.res = "none"

\* an allowed request that the user did not confirm
C22_Witness ==
  /\ exec.step = "Returned"
  /\ exec.prompted
  /\ exec.res = "cancelled"
  /\ IsActionAllowed(GetActionConfig(settings), exec.req.type)

\* C23: a run whose request is classified simple (instant mode) never calls
\* getProjectCache and leaves the cache map as it found it, also when the map
\* holds a valid entry for the root; its system prompts carry no project
\* context and its result reports no cache use
C23_InstantRunLeavesCacheAlone ==
  (pc # "Classifying" /\ run.analysis.mode = "instant") =>
     /\ projectCaches = hist.cachesAtStart
     /\ getter["run"] = IdleGetter
     /\ run.cache = NoSnapshot
     /\ \A prompt \in hist.systemPrompts : prompt.projectContext = <<>>
     /\ Returned => ~result.cachedUsed

\* an instant run that returned while the map held a valid entry for its root
C23_Witness ==
  /\ run.analysis.mode = "instant"
  /\ config.workspacePath = "p"
  /\ "p" \in DOMAIN projectCaches
  /\ IsFresh(projectCaches["p"], now)
  /\ result.kind = "Succeeded"

\* C24: when every awaited call settles, the run reaches a terminal state
\* and returns a result of one of the three kinds, which then stays; the loop
\* is re-entered only with retryCount increased
C24_RunTerminates ==
  /\ <>(pc = "Done" /\ result.kind \in {"Succeeded", "FailedExhausted", "FailedFatal"})
  /\ [][/\ Returned => result' = result
        /\ (pc \in {"InvokingModel", "Validating"} /\ pc' = "AssemblingPrompt")
             => run'.retryCount = run.retryCount + 1
        /\ pc' = "Done" <=> Returned']_vars

\* a run that returned after the last retry's invocation failed
C24_Witness ==
  /\ pc = "Done"
  /\ result.kind = "FailedFatal"
  /\ run.retryCount = maxRetries
  /\ hist.aiCalls = maxRetries + 1

\* the depth of one bracket kind never drops below 0 and ends at 0
BalancedKind(text, open) ==
  /\ \A i \in 0..Len(text) : BracketCount(text, open, i) >= 0
  /\ BracketCount(text, open, Len(text)) = 0

Balanced(text) == \A open \in Openers : BalancedKind(text, open)

\* C25: for another file type the verdict is unacceptable for every text with
\* an opener that is never closed or a closer with no earlier unmatched
\* opener of its kind, and acceptable for every text whose brackets balance
C25_UnbalancedTextRejected ==
  pc = "BasicValidated" =>
    (run.lastValidationResult.isValid <=> Balanced(config.text))

\* C26: the retries value of every returned result is the number of model
\* invocations of the run minus one, also with validation disabled
C26_RetriesCountInvocations ==
  Returned => result.retries = hist.aiCalls - 1

\* the requests of a list
RequestsIn(actions) == {actions[i] : i \in 1..Len(actions)}

\* C27: every request that executed successfully in any attempt of the run
\* is in the result's actionsExecuted, and in changesMade, which is built
\* from that list
C27_ResultAuditsEverySuccess ==
  Returned =>
    /\ hist.discarded \subseteq RequestsIn(result.actionsExecuted)
    /\ result.changesMade = BuildChangesMade(result.actionsExecuted)

\* C28: once clearProjectCache(p) has returned, no getProjectCache(p) is a
\* hit on a snapshot that holds project data read before the clear, also
\* when a build for p was suspended on a read at the time of the clear
C28_NoHitOnDataReadBeforeClear ==
  \A c \in DOMAIN getter :
    (getter[c].pc # "idle" /\ getter[c].hit) => ~getter[c].hitPreClear

\* C29: a failed result of a run in which an attempt produced candidate code
\* carries the most recent candidate code and the last verdict, also when
\* the last attempt failed because the model invocation threw
C29_FailureCarriesLastCandidate ==
  (Returned /\ ~result.success /\ hist.badVerdicts > 0) =>
     /\ result.code # <<>>
     /\ result.validationErrors = run.lastValidationResult.errors
     /\ result.validationScore = run.lastValidationResult.score

\* C30: cachedUsed is true only when the run's snapshot was served from an
\* unexpired cache entry, and false when the run built the snapshot itself
\* or used none
C30_CachedUsedMeansHit ==
  (Returned /\ result.kind # "FailedFatal") =>
     (result.cachedUsed <=> (run.cache # NoSnapshot /\ getter["run"].hit))

====
